---- MODULE Spec2Model ----
(***************************************************************************)
(* The rating ledger of the Ping Pong Elo dashboard (src/main.py): the     *)
(* player registry and the match log held in the session state, the three  *)
(* handlers of one script run (K-factor slider, "Reset all data", "Record  *)
(* Match") and the leaderboard every run recomputes.                       *)
(*                                                                         *)
(* Python floats are modelled as a binary floating-point format of reduced *)
(* width: a value is the integer n standing for n / 2^FracBits, carrying   *)
(* at most Precision significant bits, and every arithmetic operation is   *)
(* the exact result rounded to nearest, ties to even, as IEEE-754 does.    *)
(* Not modelled: the sign-in flow (the script stops before any handler     *)
(* when the session is not signed in) and the "Time" field of a match      *)
(* record (a wall-clock string no handler reads).                          *)
(***************************************************************************)
EXTENDS Integers, Sequences, FiniteSets, TLC

VARIABLES players, matches, k_factor, rows, last

vars == <<players, matches, k_factor, rows, last>>

(***************************************************************************)
(* Bounds of the model.                                                    *)
(***************************************************************************)
\* The Record Match handler is disabled once the log holds this many records.
MaxMatches == 3
\* Significant bits of the modelled float (53 in the program).
Precision == 15
\* Binary places of the finest representable step (the subnormal spacing).
FracBits == 14

(***************************************************************************)
(* Program constants.                                                      *)
(***************************************************************************)
DefaultK == 32
SliderMin == 8
SliderMax == 64
SliderStep == 2
EloScale == 400
EloBase == 10

\* The slider positions the model tries: the lowest and the default, both
\* positions the slider can take.
KFactors == {k \in {SliderMin, DefaultK} :
               /\ k >= SliderMin
               /\ k <= SliderMax
               /\ (k - SliderMin) % SliderStep = 0}

\* Characters of the text inputs, a text being a sequence of characters.
Space == " "
RawInputs == { <<>>, <<Space>>, <<"a">>, <<"a", Space>>, <<Space, "b">>, <<"c">> }

(***************************************************************************)
(* Floating point.                                                         *)
(***************************************************************************)
One == 2^FracBits

RECURSIVE BitLen(_)
BitLen(n) == IF n = 0 THEN 0 ELSE 1 + BitLen(n \div 2)

\* The spacing of the representable values around n >= 0.
Ulp(n) == IF BitLen(n) <= Precision THEN 1 ELSE 2^(BitLen(n) - Precision)

\* The representable value nearest to num/den (num >= 0, den > 0), ties to even.
RoundRatio(num, den) ==
    LET q    == num \div den
        rem  == num % den
        u    == Ulp(q)
        lo   == q - (q % u)
        part == 2 * ((q % u) * den + rem)
        full == u * den
    IN  IF part < full THEN lo
        ELSE IF part > full THEN lo + u
        ELSE IF (lo \div u) % 2 = 0 THEN lo ELSE lo + u

RoundSigned(num, den) ==
    IF num < 0 THEN 0 - RoundRatio(0 - num, den) ELSE RoundRatio(num, den)

Fl(n) == RoundSigned(n, 1)

FAdd(a, b) == Fl(a + b)
FSub(a, b) == Fl(a - b)
\* int * float: the int converts exactly.
FMulInt(k, a) == Fl(k * a)
\* a / b for floats a, b > 0 with a * One in range.
FDiv(a, b) == RoundSigned(a * One, b)
\* a / c for a float a and a whole number c > 0.
FDivInt(a, c) == RoundSigned(a, c)

\* The integer nearest to num/den (num >= 0, den > 0), ties to even.
NearestInt(num, den) ==
    LET q   == num \div den
        rem == num % den
    IN  IF 2 * rem < den THEN q
        ELSE IF 2 * rem > den THEN q + 1
        ELSE IF q % 2 = 0 THEN q ELSE q + 1

\* round(x, 1), as a whole number of tenths.
Round1(n) == IF n < 0 THEN 0 - NearestInt(10 * (0 - n), One)
             ELSE NearestInt(10 * n, One)

(***************************************************************************)
(* 10 ** x.  The library's pow is modelled by the product of the factors   *)
(* 10^(2^-j) of the binary places of x, carried at the scale TableOne,     *)
(* times the whole power of ten; the result is rounded to a float.         *)
(***************************************************************************)
TableOne == 2^16
\* PowTable[j] = 10^(2^-j) * TableOne, rounded.
PowTable == << 207243, 116541, 87394, 75680, 70425, 67937, 66726, 66128,
               65831, 65684, 65610, 65573, 65554, 65545, 65541, 65538 >>

\* a * b / TableOne, rounded, without leaving 31 bits.
MulTable(a, b) ==
    LET ah == a \div 256
        al == a % 256
        s  == ah * b + ((al * b) \div 256)
        m  == TableOne \div 256
    IN  (s \div m) + (IF 2 * (s % m) >= m THEN 1 ELSE 0)

\* 10^(f / One) * TableOne for 0 <= f < One: place j of f has weight 2^-j.
RECURSIVE PowFrac(_, _, _)
PowFrac(f, j, acc) ==
    IF j > FracBits THEN acc
    ELSE LET w == 2^(FracBits - j)
         IN  IF (f \div w) % 2 = 1 /\ j <= Len(PowTable)
             THEN PowFrac(f, j + 1, MulTable(acc, PowTable[j]))
             ELSE PowFrac(f, j + 1, acc)

Pow10(x) ==
    LET i    == IF x >= 0 THEN x \div One ELSE 0 - (((0 - x) + One - 1) \div One)
        f    == x - i * One
        frac == PowFrac(f, 1, TableOne)
        unit == TableOne \div One
    IN  IF i >= 0 THEN RoundRatio(frac * (EloBase^i), unit)
        ELSE RoundRatio(frac, unit * (EloBase^(0 - i)))

(***************************************************************************)
(* The registry: a Python dict, which keeps its keys in insertion order,   *)
(* as the sequence of its entries.                                         *)
(***************************************************************************)
DefaultRatingPoints == 1200
DefaultRating == DefaultRatingPoints * One

Names(ps) == { ps[i].name : i \in DOMAIN ps }
Has(ps, name) == name \in Names(ps)
Index(ps, name) == CHOOSE i \in DOMAIN ps : ps[i].name = name
Get(ps, name) == ps[Index(ps, name)]

NewPlayer(name) ==
    [name |-> name, rating |-> DefaultRating, wins |-> 0, losses |-> 0, games |-> 0]

\* A faulty variant: the membership test is dropped, so an existing entry is overwritten.
get_or_create_player_overwrite(ps, name) ==
    IF Has(ps, name) THEN [ps EXCEPT ![Index(ps, name)] = NewPlayer(name)]
    ELSE Append(ps, NewPlayer(name))

get_or_create_player(ps, name) ==
    IF Has(ps, name) THEN ps ELSE Append(ps, NewPlayer(name))

\* A faulty variant: the "1.0 +" of the denominator is dropped.
expected_score_no_one(rating_a, rating_b) ==
    FDiv(One, Pow10(FDivInt(FSub(rating_b, rating_a), EloScale)))

expected_score(rating_a, rating_b) ==
    FDiv(One, FAdd(One, Pow10(FDivInt(FSub(rating_b, rating_a), EloScale))))

DeltaWinner(k, ea) == FMulInt(k, FSub(One, ea))
\* A faulty variant: the loser is charged its own expected score, k * (0 - (1 - eb)).
DeltaLoserOwnScore(k, eb) == FMulInt(k, FSub(0, FSub(One, eb)))

DeltaLoser(k, eb) == FMulInt(k, FSub(0, eb))

SetRating(ps, name, r) == [ps EXCEPT ![Index(ps, name)].rating = r]

\* A faulty variant: a win counts a game for every player of the registry.
CountWinGamesForAll(ps, name) ==
    [i \in DOMAIN ps |->
        IF ps[i].name = name
        THEN [ps[i] EXCEPT !.wins = @ + 1, !.games = @ + 1]
        ELSE [ps[i] EXCEPT !.games = @ + 1]]

CountWin(ps, name) ==
    LET i == Index(ps, name)
    IN  [ps EXCEPT ![i].wins = @ + 1, ![i].games = @ + 1]

\* A faulty variant: the loser's games counter is not incremented.
CountLossNoGame(ps, name) == [ps EXCEPT ![Index(ps, name)].losses = @ + 1]

CountLoss(ps, name) ==
    LET i == Index(ps, name)
    IN  [ps EXCEPT ![i].losses = @ + 1, ![i].games = @ + 1]

\* The registry update_elo leaves, with its locals and its return value.
update_elo(ps, winner, loser, k) ==
    LET created == get_or_create_player(get_or_create_player(ps, winner), loser)
        ra      == Get(created, winner).rating
        rb      == Get(created, loser).rating
        ea      == expected_score(ra, rb)
        eb      == FSub(One, ea)
        delta_w == DeltaWinner(k, ea)
        delta_l == DeltaLoser(k, eb)
        rated   == SetRating(SetRating(created, winner, FAdd(ra, delta_w)),
                             loser, FAdd(rb, delta_l))
    IN  [players |-> CountLoss(CountWin(rated, winner), loser),
         ra |-> ra, rb |-> rb, delta_w |-> delta_w, delta_l |-> delta_l,
         new_ra |-> FAdd(ra, delta_w), new_rb |-> FAdd(rb, delta_l),
         delta |-> delta_w]

(***************************************************************************)
(* leaderboard_rows.  Rating, Win % and a match's rating change are whole  *)
(* numbers of tenths: the values round(x, 1) returns.                      *)
(***************************************************************************)
WinRate(wins, games) ==
    IF games > 0 THEN FMulInt(100, RoundRatio(wins * One, games)) ELSE 0

Row(info) ==
    [Player |-> info.name,
     Rating |-> Round1(info.rating),
     Games  |-> info.games,
     Wins   |-> info.wins,
     Losses |-> info.losses,
     WinPct |-> Round1(WinRate(info.wins, info.games))]

\* A faulty variant: Losses enters the key without its sign flipped.
KeyLessLossesDescending(x, y) ==
    \/ x.Rating < y.Rating
    \/ x.Rating = y.Rating /\ x.Wins < y.Wins
    \/ x.Rating = y.Rating /\ x.Wins = y.Wins /\ x.Losses < y.Losses

\* The sort key (Rating, Wins, -Losses), compared as Python compares tuples.
KeyLess(x, y) ==
    \/ x.Rating < y.Rating
    \/ x.Rating = y.Rating /\ x.Wins < y.Wins
    \/ x.Rating = y.Rating /\ x.Wins = y.Wins /\ (0 - x.Losses) < (0 - y.Losses)

\* list.sort(reverse = True) is stable: r goes behind every row that is not
\* smaller than it.
RECURSIVE InsertRow(_, _)
InsertRow(sorted, r) ==
    IF sorted = <<>> THEN <<r>>
    ELSE IF KeyLess(Head(sorted), r) THEN <<r>> \o sorted
    ELSE <<Head(sorted)>> \o InsertRow(Tail(sorted), r)

RECURSIVE SortRows(_, _)
SortRows(unsorted, sorted) ==
    IF unsorted = <<>> THEN sorted
    ELSE SortRows(Tail(unsorted), InsertRow(sorted, Head(unsorted)))

leaderboard_rows(ps) == SortRows([i \in DOMAIN ps |-> Row(ps[i])], <<>>)

(***************************************************************************)
(* str.strip on a text input.                                              *)
(***************************************************************************)
RECURSIVE LStrip(_)
LStrip(s) == IF s # <<>> /\ Head(s) = Space THEN LStrip(Tail(s)) ELSE s

RECURSIVE RStrip(_)
RStrip(s) ==
    IF s # <<>> /\ s[Len(s)] = Space THEN RStrip(SubSeq(s, 1, Len(s) - 1)) ELSE s

Strip(s) == RStrip(LStrip(s))

can_submit(player_a, player_b) ==
    /\ Strip(player_a) # <<>>
    /\ Strip(player_b) # <<>>
    /\ Strip(player_a) # Strip(player_b)

(***************************************************************************)
(* The script runs.  "last" is a history variable no handler reads: the    *)
(* handler the latest run executed; for Record Match, update_elo's         *)
(* arguments, locals and return value; and in "cleared" the names a reset  *)
(* removed (in the run of the reset and in a Record Match run that comes   *)
(* right after it).                                                        *)
(***************************************************************************)
NoCall(op, cleared) ==
    [op |-> op, winner |-> <<>>, loser |-> <<>>, k |-> 0, ra |-> 0, rb |-> 0,
     delta_w |-> 0, delta_l |-> 0, new_ra |-> 0, new_rb |-> 0, delta |-> 0,
     cleared |-> cleared]

initialize_state ==
    /\ players = <<>>
    /\ matches = <<>>
    /\ k_factor = DefaultK

Init ==
    /\ initialize_state
    /\ rows = leaderboard_rows(<<>>)
    /\ last = NoCall("init", {})

\* A run after the slider moved: no button is pressed.
MoveSlider ==
    \E k \in KFactors :
        /\ k # k_factor
        /\ k_factor' = k
        /\ rows' = leaderboard_rows(players)
        /\ last' = NoCall("slider", {})
        /\ UNCHANGED <<players, matches>>

\* A faulty variant: the reset clears the registry and keeps the log.
ResetPlayersOnly ==
    /\ players' = <<>>
    /\ rows' = leaderboard_rows(players')
    /\ last' = NoCall("reset", Names(players))
    /\ UNCHANGED <<matches, k_factor>>

\* A faulty variant: the reset clears the log and keeps the registry.
ResetMatchesOnly ==
    /\ matches' = <<>>
    /\ rows' = leaderboard_rows(players)
    /\ last' = NoCall("reset", Names(players))
    /\ UNCHANGED <<players, k_factor>>

\* A run with "Reset all data" pressed.
Reset ==
    /\ players' = <<>>
    /\ matches' = <<>>
    /\ rows' = leaderboard_rows(players')
    /\ last' = NoCall("reset", Names(players))
    /\ UNCHANGED k_factor

\* A faulty variant: the rating change is cut to one decimal, not rounded.
MatchRecordTruncated(win_name, lose_name, delta, k) ==
    [Winner |-> win_name, Loser |-> lose_name, Delta |-> (10 * delta) \div One, K |-> k]

MatchRecord(win_name, lose_name, delta, k) ==
    [Winner |-> win_name, Loser |-> lose_name, Delta |-> Round1(delta), K |-> k]

\* A faulty variant: list.append instead of list.insert(0, ...).
InsertMatchAtEnd(ms, m) == Append(ms, m)

InsertMatch(ms, m) == <<m>> \o ms

\* A run with "Record Match" pressed.
RecordMatch ==
    \E player_a \in RawInputs, player_b \in RawInputs,
       winner \in {"Player A", "Player B"} :
        /\ Len(matches) < MaxMatches
        /\ can_submit(player_a, player_b)
        /\ LET a         == Strip(player_a)
               b         == Strip(player_b)
               win_name  == IF winner = "Player A" THEN a ELSE b
               lose_name == IF winner = "Player A" THEN b ELSE a
           IN  \E res \in {update_elo(players, win_name, lose_name, k_factor)} :
               /\ players' = res.players
               /\ matches' = InsertMatch(matches,
                                 MatchRecord(win_name, lose_name, res.delta, k_factor))
               /\ rows' = leaderboard_rows(players')
               /\ last' = [op |-> "record", winner |-> win_name, loser |-> lose_name,
                           k |-> k_factor, ra |-> res.ra, rb |-> res.rb,
                           delta_w |-> res.delta_w, delta_l |-> res.delta_l,
                           new_ra |-> res.new_ra, new_rb |-> res.new_rb,
                           delta |-> res.delta,
                           cleared |-> IF last.op = "reset" THEN last.cleared ELSE {}]
        /\ UNCHANGED k_factor

Next == MoveSlider \/ Reset \/ RecordMatch

Spec == Init /\ [][Next]_vars

(***************************************************************************)
(* A second specification, for leaderboard_rows as a function of the       *)
(* registry alone: the registry is drawn from the entries below (ratings   *)
(* one float apart around the default, so that distinct ratings share a    *)
(* rounded value; counters up to MaxCount with games = wins + losses >= 1) *)
(* and every run recomputes the rows.                                      *)
(***************************************************************************)
MaxCount == 1

BoardNames == << <<"a">>, <<"b">>, <<"c">> >>

RatingSamples ==
    LET u == Ulp(DefaultRating)
    IN  {DefaultRating - u, DefaultRating, DefaultRating + u, DefaultRating + 2 * u}

BoardCounts == {c \in (0..MaxCount) \X (0..MaxCount) : c[1] + c[2] >= 1}

BoardStats ==
    { [rating |-> r, wins |-> c[1], losses |-> c[2]] :
        r \in RatingSamples, c \in BoardCounts }

\* The registry holding stats[i] under the i-th name.
Registry(stats) ==
    [i \in DOMAIN stats |->
        [name |-> BoardNames[i], rating |-> stats[i].rating, wins |-> stats[i].wins,
         losses |-> stats[i].losses, games |-> stats[i].wins + stats[i].losses]]

InitBoard ==
    /\ \E n \in 0..Len(BoardNames) :
          \E stats \in [1..n -> BoardStats] : players = Registry(stats)
    /\ matches = <<>>
    /\ k_factor = DefaultK
    /\ rows = leaderboard_rows(players)
    /\ last = NoCall("init", {})

BoardNext == MoveSlider

SpecBoard == InitBoard /\ [][BoardNext]_vars

(***************************************************************************)
(* Helpers of the properties.                                              *)
(***************************************************************************)
Abs(n) == IF n < 0 THEN 0 - n ELSE n

RECURSIVE SumWins(_)
SumWins(ps) == IF ps = <<>> THEN 0 ELSE Head(ps).wins + SumWins(Tail(ps))

RECURSIVE SumLosses(_)
SumLosses(ps) == IF ps = <<>> THEN 0 ELSE Head(ps).losses + SumLosses(Tail(ps))

WonInLog(name) == Cardinality({i \in DOMAIN matches : matches[i].Winner = name})
LostInLog(name) == Cardinality({i \in DOMAIN matches : matches[i].Loser = name})

Recorded == last.op = "record"
WinnerNow == Get(players, last.winner)
LoserNow == Get(players, last.loser)

(***************************************************************************)
(* The properties.                                                         *)
(***************************************************************************)

\* C1: in every reachable state every player of the registry has
\* games = wins + losses, and the three counters are non-negative integers.
GamesAreWinsPlusLosses ==
    \A i \in DOMAIN players :
        /\ players[i].wins \in Nat
        /\ players[i].losses \in Nat
        /\ players[i].games \in Nat
        /\ players[i].games = players[i].wins + players[i].losses

\* A player who has both won and lost.
WitnessWonAndLost ==
    \E i \in DOMAIN players : players[i].wins >= 1 /\ players[i].losses >= 1

\* C2: in every reachable state the winner and the loser of every record of
\* the match log are keys of the registry.
NoDanglingNames ==
    \A i \in DOMAIN matches :
        /\ Has(players, matches[i].Winner)
        /\ Has(players, matches[i].Loser)

\* A log of several records over three players.
WitnessLogOverThreePlayers ==
    Len(matches) >= 2 /\ Cardinality(Names(players)) = 3

\* C3, as claimed: after a recorded match the loser's change is the exact
\* negative of the winner's and the two ratings sum to what they summed to
\* before the match.
DeltasOppositeAndSumKept ==
    Recorded =>
        /\ last.delta_l = 0 - last.delta_w
        /\ WinnerNow.rating + LoserNow.rating = last.ra + last.rb

\* C3, amended: the loser's change is the exact negative of the winner's;
\* the sum of the two ratings moves by no more than the rounding of the two
\* additions, half a unit in the last place of each new rating.
DeltasOppositeSumWithinRounding ==
    Recorded =>
        /\ last.delta_l = 0 - last.delta_w
        /\ 2 * Abs((WinnerNow.rating + LoserNow.rating) - (last.ra + last.rb))
             <= Ulp(WinnerNow.rating) + Ulp(LoserNow.rating)

\* A recorded match after which the two ratings no longer sum to what they did.
WitnessSumMoved ==
    /\ Recorded
    /\ last.delta_l = 0 - last.delta_w
    /\ WinnerNow.rating + LoserNow.rating # last.ra + last.rb

\* C4: in the rows leaderboard_rows returns, a row x ahead of a row y has a
\* greater rounded rating, or the same rating and more wins, or the same
\* rating and wins and no more losses.
LeaderboardSorted ==
    \A i, j \in DOMAIN rows :
        i < j =>
            \/ rows[i].Rating > rows[j].Rating
            \/ rows[i].Rating = rows[j].Rating /\ rows[i].Wins > rows[j].Wins
            \/ /\ rows[i].Rating = rows[j].Rating
               /\ rows[i].Wins = rows[j].Wins
               /\ rows[i].Losses <= rows[j].Losses

\* Three rows of one rounded rating, from ratings that differ, ordered by the
\* wins and then by the losses.
WitnessTieBreaks ==
    /\ Len(rows) = 3
    /\ rows[1].Rating = rows[3].Rating
    /\ rows[1].Wins = rows[2].Wins
    /\ rows[1].Losses < rows[2].Losses
    /\ rows[2].Wins > rows[3].Wins
    /\ \E i, j \in DOMAIN players : players[i].rating # players[j].rating

\* C5: a reset leaves the registry, the log and the leaderboard empty, a
\* reset right after a reset changes none of them, and a match recorded
\* right after a reset starts both its players from the default rating with
\* no earlier game.
ResetStartsAfresh ==
    [][ /\ last'.op = "reset" =>
            players' = <<>> /\ matches' = <<>> /\ rows' = <<>>
        /\ (last.op = "reset" /\ last'.op = "reset") =>
            players' = players /\ matches' = matches /\ rows' = rows
        /\ (last.op = "reset" /\ last'.op = "record") =>
            /\ last'.ra = DefaultRating
            /\ last'.rb = DefaultRating
            /\ Len(players') = 2
            /\ Get(players', last'.winner) =
                 [name |-> last'.winner, rating |-> last'.new_ra,
                  wins |-> 1, losses |-> 0, games |-> 1]
            /\ Get(players', last'.loser) =
                 [name |-> last'.loser, rating |-> last'.new_rb,
                  wins |-> 0, losses |-> 1, games |-> 1]
      ]_vars

\* A match recorded right after a reset that removed both of its players.
WitnessRecreatedAfterReset ==
    Recorded /\ {last.winner, last.loser} \subseteq last.cleared

\* C6: a step leaves the log as it is, or empties the log and the registry
\* together, or is a Record Match that puts its record in front of the
\* unchanged earlier records.
MostRecentFirst ==
    [][ \/ matches' = matches
        \/ matches' = <<>> /\ players' = <<>>
        \/ /\ last'.op = "record"
           /\ Len(matches') = Len(matches) + 1
           /\ Tail(matches') = matches
           /\ matches'[1].Winner = last'.winner
           /\ matches'[1].Loser = last'.loser
      ]_vars

\* The latest record in front of a different, earlier one.
WitnessNewestInFront ==
    /\ Recorded
    /\ Len(matches) >= 2
    /\ matches[1].Winner = last.winner
    /\ matches[1].Loser = last.loser
    /\ matches[1] # matches[2]

\* C7: a match at K = 32 between two players both rated 1200 leaves the
\* winner at 1216.0 and the loser at 1184.0 and returns the delta 16.0.
EqualRatingsAtK32 ==
    (Recorded /\ last.k = 32 /\ last.ra = 1200 * One /\ last.rb = 1200 * One) =>
        /\ WinnerNow.rating = 1216 * One
        /\ LoserNow.rating = 1184 * One
        /\ last.new_ra = 1216 * One
        /\ last.new_rb = 1184 * One
        /\ last.delta = 16 * One

\* Such a match, between two players it created.
WitnessEqualRatingsAtK32 ==
    /\ Recorded
    /\ last.k = 32
    /\ last.ra = 1200 * One
    /\ last.rb = 1200 * One
    /\ WinnerNow.rating = 1216 * One

\* C8, as claimed: the rating change stored in the record is the delta that
\* was added to the winner's rating and returned, and the stored K is the K
\* used.
StoredDeltaIsDelta ==
    Recorded =>
        /\ matches[1].Delta * One = 10 * last.delta
        /\ matches[1].K = last.k

\* C8, amended: the rating change stored in the record is the returned
\* delta rounded to one decimal (so within 0.05 of it), the returned delta
\* is the one added to the winner's rating, and the stored K is the K used.
StoredDeltaIsRoundedDelta ==
    Recorded =>
        /\ 2 * Abs(matches[1].Delta * One - 10 * last.delta) <= One
        /\ last.delta = last.delta_w
        /\ WinnerNow.rating = FAdd(last.ra, last.delta)
        /\ matches[1].K = last.k

\* A record whose stored change is above the delta it was rounded from.
WitnessStoredRoundedUp ==
    Recorded /\ matches[1].Delta * One > 10 * last.delta

\* C9: a Record Match run removes no player and changes no entry but the
\* winner's and the loser's; a run that only recomputes the leaderboard
\* changes neither registry nor log and returns the rows it returned before.
RecordTouchesOnlyItsPlayers ==
    [][ /\ last'.op = "record" =>
            \A i \in DOMAIN players :
                /\ i \in DOMAIN players'
                /\ players'[i].name = players[i].name
                /\ players[i].name \notin {last'.winner, last'.loser} =>
                       players'[i] = players[i]
        /\ last'.op = "slider" =>
            players' = players /\ matches' = matches /\ rows' = rows
      ]_vars

\* A recorded match with a bystander who has played.
WitnessBystander ==
    /\ Recorded
    /\ \E i \in DOMAIN players :
          players[i].name \notin {last.winner, last.loser} /\ players[i].games >= 1

\* C10: in every reachable state the log has as many records as the players
\* have wins, and as they have losses; each player's wins and losses are the
\* records naming the player as winner and as loser; every player has played.
LedgerAgreesWithLog ==
    /\ Len(matches) = SumWins(players)
    /\ Len(matches) = SumLosses(players)
    /\ \A i \in DOMAIN players :
          /\ players[i].wins = WonInLog(players[i].name)
          /\ players[i].losses = LostInLog(players[i].name)
          /\ players[i].games >= 1

\* A full log over three players, one of them with two wins.
WitnessFullLog ==
    /\ Len(matches) >= 3
    /\ Len(players) = 3
    /\ \E i \in DOMAIN players : players[i].wins = 2

====
